---- MODULE Spec2Model ----
(***************************************************************************)
(* MetadataStore (src/unnamed/part_001): the SQLite-backed metadata table  *)
(* and the per-object dirty-block bitmaps, in memory (bitmap_) and on disk *)
(* (one packed file per (hash, part)).  Every public method is one atomic  *)
(* action; the environment's part (an open, read or write that fails, a    *)
(* statement that fails) is a nondeterministic choice inside the action.   *)
(* For the calls that threads make at once, get, put, markDirtyBlock and   *)
(* flushBitmaps are also given statement by statement.                     *)
(***************************************************************************)
EXTENDS Integers, Sequences, FiniteSets, TLC

\* ------------------------------------------------------------------ bounds
MaxPart == 1
MaxBlock == 8
MaxTime == 2

\* ------------------------------------------------------- program constants
\* bits per packed byte: the inner loop bound of loadBitmap, the divisor of
\* persistBitmap
ByteBits == 8

\* ------------------------------------------------------------ input domains
Paths == {"/d", "/d/f"}
Times == 1..MaxTime
Hashes == {"h1", "h2"}
Parts == 0..MaxPart
Blocks == {0, MaxBlock}

\* markDirtyBlock arguments <<hash_hex, part_idx, block_idx>>.
\* OneMark: one block of one object.  ObjectMarks: a block in the first and
\* one in the second packed byte of an object's first part, and a block of a
\* second object.  PartMarks: the same two blocks of the first part and one
\* block of every further part of one object.
OneMark == {<<"h1", 0, 0>>}
ObjectMarks == {<<"h1", 0, 0>>, <<"h1", 0, MaxBlock>>, <<"h2", 0, 0>>}
PartMarks == {<<"h1", 0, b>> : b \in Blocks} \cup {<<"h1", p, 0>> : p \in 1..MaxPart}

\* CacheMetadata values handed to put: a directory entry, a dirty file and a
\* clean file, pairwise different in every field
MetaFor(path) ==
  { [path |-> path, local_path |-> "", size |-> 0, timestamp |-> 1,
     last_accessed |-> 1, dirty |-> FALSE],
    [path |-> path, local_path |-> "/c/p0", size |-> 5, timestamp |-> MaxTime,
     last_accessed |-> MaxTime, dirty |-> TRUE] }

\* the identity of an object: the hash of its logical path
HashOf(path) == IF path = "/d" THEN "h1" ELSE "h2"

\* the ancestor directories of a logical path, among Paths
Ancestors(path) == IF path = "/d/f" THEN {"/d"} ELSE {}

VARIABLES
  db_handle_,   \* "null" or "open": MetadataStore::db_handle_
  has_table,    \* the database file holds the table "metadata"
  metadata,     \* the table: stored path -> row (the columns but path)
  bitmap_,      \* MetadataStore::bitmap_: hash -> part -> bit vector
  files,        \* the bitmap files: <<hash, part>> -> NoFile or its bytes
  last,         \* the last call: its name, arguments and result
  flushed,      \* history: <<hash, part>> -> the bits the last flushBitmaps
                \* of that part persisted, {} unless it returned true
  threads       \* thread -> where it is in the method it is calling, and
                \* the locals of the call

vars == <<db_handle_, has_table, metadata, bitmap_, files, last, flushed,
          threads>>

NoFile == <<-1>>
EmptyMap == [x \in {} |-> x]

\* ------------------------------------------------------------ bit packing
RECURSIVE Pow2(_)
Pow2(n) == IF n = 0 THEN 1 ELSE 2 * Pow2(n - 1)

\* persistBitmap: the size of the packed array
PackedSize(nbits) == (nbits + (ByteBits - 1)) \div ByteBits

\* persistBitmap: bytes[i / 8] |= (1u << (i % 8)) for each set bit i
RECURSIVE PackByte(_, _, _)
PackByte(bits, j, b) ==
  IF b = ByteBits THEN 0
  ELSE (IF j * ByteBits + b < Len(bits) /\ bits[j * ByteBits + b + 1]
        THEN Pow2(b) ELSE 0) + PackByte(bits, j, b + 1)

\* a packing that puts bit i of the vector at bit 7 - (i mod 8) of its byte
RECURSIVE PackByteMsbFirst(_, _, _)
PackByteMsbFirst(bits, j, b) ==
  IF b = ByteBits THEN 0
  ELSE (IF j * ByteBits + b < Len(bits) /\ bits[j * ByteBits + b + 1]
        THEN Pow2(ByteBits - 1 - b) ELSE 0) + PackByteMsbFirst(bits, j, b + 1)

PackBitsMsbFirst(bits) ==
  [j \in 1..PackedSize(Len(bits)) |-> PackByteMsbFirst(bits, j - 1, 0)]

\* persistBitmap: the packed array
PackBits(bits) == [j \in 1..PackedSize(Len(bits)) |-> PackByte(bits, j - 1, 0)]

\* loadBitmap: the size of the read buffer
LoadBufSize(file_size) == (file_size + 7) \div 8

\* pread(fd, buf, count, 0) on a regular file into a zeroed buffer
PRead(bytes, count) ==
  [i \in 1..count |-> IF i <= Len(bytes) THEN bytes[i] ELSE 0]

\* loadBitmap: bytes[i] & (1u << b)
BitAt(byte, b) == (byte \div Pow2(b)) % 2 = 1

\* loadBitmap: vec[i * 8 + b] = bytes[i] & (1u << b), i < bytes.size(), b < 8
ExpandBytes(bytes) ==
  [k \in 1..(Len(bytes) * ByteBits) |->
     BitAt(bytes[((k - 1) \div ByteBits) + 1], (k - 1) % ByteBits)]

\* std::vector<bool>::resize(n, false)
Resize(vec, n) == [k \in 1..n |-> IF k <= Len(vec) THEN vec[k] ELSE FALSE]

\* ---------------------------------------------------------- bitmap_ access
HasVec(bm, h, p) == h \in DOMAIN bm /\ p \in DOMAIN bm[h]
VecOf(bm, h, p) == IF HasVec(bm, h, p) THEN bm[h][p] ELSE <<>>
PartsOf(bm, h) == IF h \in DOMAIN bm THEN DOMAIN bm[h] ELSE {}

\* auto& vec = bitmap_[hash_hex][part_idx]; vec = v
SetVec(bm, h, p, v) ==
  LET inner == IF h \in DOMAIN bm THEN bm[h] ELSE EmptyMap
  IN  (h :> ((p :> v) @@ inner)) @@ bm

SetBits(vec) == {i \in 0..(Len(vec) - 1) : vec[i + 1]}

\* the record of a call; writes: what the environment let each persistBitmap
\* of a flushBitmaps write; db_err: a statement of the call could not be
\* prepared or its sqlite3_step ended in an error
CallRec(op, path, hash, part, block, ret, out, writes, db_err) ==
  [op |-> op, path |-> path, hash |-> hash, part |-> part, block |-> block,
   ret |-> ret, out |-> out, writes |-> writes, db_err |-> db_err]

CallWith(op, path, hash, part, block, ret, out, writes) ==
  CallRec(op, path, hash, part, block, ret, out, writes, FALSE)

Call(op, path, hash, part, block, ret, out) ==
  CallWith(op, path, hash, part, block, ret, out, EmptyMap)

\* the record of a call of a method on the table
DbCall(op, path, block, ret, out, db_err) ==
  CallRec(op, path, "", 0, block, ret, out, EmptyMap, db_err)

\* ------------------------------------------------------------ the threads
\* the engine's threads: a foreground dispatcher thread and a background
\* worker; each calls the methods of the one MetadataStore
Tids == {"fg", "bg"}

\* a CacheMetadata before its fields are assigned
NoMeta ==
  [path |-> "", local_path |-> "", size |-> 0, timestamp |-> 0,
   last_accessed |-> 0, dirty |-> FALSE]

\* a thread that is in no method.  meta: the argument of put, the local of
\* get; stmt: the row the statement is on; col: the next column get reads;
\* hash, part, block: the arguments of the bitmap methods; size, bytes, ok:
\* locals of persistBitmap and flushBitmaps.  History: cands, the results
\* get(path) would have given at some instant since the call began; marked,
\* the blocks whose markDirtyBlock, called by this thread, has returned
Idle ==
  [pc |-> "idle", meta |-> NoMeta, stmt |-> {}, col |-> 0, cands |-> {},
   hash |-> "", part |-> 0, block |-> 0, size |-> 0, bytes |-> <<>>,
   ok |-> TRUE, marked |-> {}]

\* ------------------------------------------------------------------- Init
Init ==
  /\ db_handle_ = "null"
  /\ has_table = FALSE
  /\ metadata = EmptyMap
  /\ bitmap_ = EmptyMap
  /\ files = [o \in Hashes \X Parts |-> NoFile]
  /\ last = Call("new", "", "", 0, 0, TRUE, {})
  /\ flushed = [o \in Hashes \X Parts |-> {}]
  /\ threads = [t \in Tids |-> Idle]

\* ------------------------------------------------------------ the database
\* sqlite3_prepare_v2 succeeds: the handle is open and the table exists
Prepared == db_handle_ = "open" /\ has_table

\* sqlite3_open returned an error
OpenFailed(how) == how \in {"open_fails", "open_nomem"}

\* init: the handles it leaves open that nothing holds any more.
\* sqlite3_open gives a handle also when it returns an error, unless it could
\* not allocate one ("open_nomem"), and init returns without closing it
\* ("unstored"); db_handle_ = db overwrites the handle of an earlier init
\* ("overwritten")
InitDrops(handle, how) ==
  (IF how = "open_fails" THEN {"unstored"} ELSE {}) \cup
  (IF ~OpenFailed(how) /\ handle = "open" THEN {"overwritten"} ELSE {})

\* an init that drops the table it finds before it creates it
InitTableFresh(table, how) == IF how = "ok" THEN EmptyMap ELSE table

\* CREATE TABLE IF NOT EXISTS metadata: the rows of a table that exists stay
InitTable(table, how) == table

\* bool MetadataStore::init(); how is what the environment does.  The record
\* of the call keeps in `block` whether init found db_handle_ set and in
\* `out` the handles it dropped
init(how) ==
  /\ how \in {"ok", "open_fails", "open_nomem", "exec_fails"}
  /\ db_handle_' = IF OpenFailed(how) THEN db_handle_ ELSE "open"
  /\ has_table' = IF how = "ok" THEN TRUE ELSE has_table
  /\ last' = DbCall("init", "", IF db_handle_ = "open" THEN 1 ELSE 0,
                    how = "ok", InitDrops(db_handle_, how), how # "ok")
  /\ metadata' = InitTable(metadata, how)
  /\ UNCHANGED <<bitmap_, files, flushed, threads>>

\* a get that reads timestamp and last_accessed from each other's column
RowToMetaSwapped(path, row) ==
  [path |-> path, local_path |-> row.local_path, size |-> row.size,
   timestamp |-> row.last_accessed, last_accessed |-> row.timestamp,
   dirty |-> row.dirty]

\* the row get builds from the columns
RowToMeta(path, row) ==
  [path |-> path, local_path |-> row.local_path, size |-> row.size,
   timestamp |-> row.timestamp, last_accessed |-> row.last_accessed,
   dirty |-> row.dirty]

\* std::optional<CacheMetadata> MetadataStore::get(path), as a set
GetResult(path) ==
  IF Prepared /\ path \in DOMAIN metadata
  THEN {RowToMeta(path, metadata[path])} ELSE {}

\* step_ok: sqlite3_step returned SQLITE_ROW or SQLITE_DONE, not an error
get(path, step_ok) ==
  LET found == IF step_ok THEN GetResult(path) ELSE {}
  IN  /\ last' = DbCall("get", path, 0, found # {}, found,
                        ~(Prepared /\ step_ok))
      /\ UNCHANGED <<db_handle_, has_table, metadata, bitmap_, files,
                     flushed, threads>>

\* a put that keeps the stored row on a conflict (INSERT OR IGNORE)
UpsertIgnore(table, meta) ==
  IF meta.path \in DOMAIN table THEN table
  ELSE (meta.path :> [local_path |-> meta.local_path, size |-> meta.size,
                      timestamp |-> meta.timestamp,
                      last_accessed |-> meta.last_accessed,
                      dirty |-> meta.dirty]) @@ table

\* a put that also stores a directory entry for every ancestor without a row
UpsertWithAncestors(table, meta) ==
  (meta.path :> [local_path |-> meta.local_path, size |-> meta.size,
                 timestamp |-> meta.timestamp,
                 last_accessed |-> meta.last_accessed,
                 dirty |-> meta.dirty]) @@ table @@
  [a \in Ancestors(meta.path) |->
     [local_path |-> "", size |-> 0, timestamp |-> meta.timestamp,
      last_accessed |-> meta.last_accessed, dirty |-> FALSE]]

\* INSERT ... ON CONFLICT(path) DO UPDATE SET every column = excluded
Upsert(table, meta) ==
  (meta.path :> [local_path |-> meta.local_path, size |-> meta.size,
                 timestamp |-> meta.timestamp,
                 last_accessed |-> meta.last_accessed,
                 dirty |-> meta.dirty]) @@ table

\* bool MetadataStore::put(meta); step_ok: sqlite3_step returned SQLITE_DONE
put(meta, step_ok) ==
  LET ok == Prepared /\ step_ok
  IN  /\ metadata' = IF ok THEN Upsert(metadata, meta) ELSE metadata
      /\ last' = DbCall("put", meta.path, 0, ok, {meta}, ~ok)
      /\ UNCHANGED <<db_handle_, has_table, bitmap_, files, flushed, threads>>

\* an updateAccessTime that inserts a row when the path has none
SetAccessTimeInserting(table, path, t) ==
  IF path \in DOMAIN table
  THEN [table EXCEPT ![path].last_accessed = t]
  ELSE (path :> [local_path |-> "", size |-> 0, timestamp |-> t,
                 last_accessed |-> t, dirty |-> FALSE]) @@ table

\* UPDATE metadata SET last_accessed=? WHERE path=?
SetAccessTime(table, path, t) ==
  IF path \in DOMAIN table
  THEN [table EXCEPT ![path].last_accessed = t] ELSE table

updateAccessTime(path, t, step_ok) ==
  LET ok == Prepared /\ step_ok
  IN  /\ metadata' = IF ok THEN SetAccessTime(metadata, path, t) ELSE metadata
      /\ last' = DbCall("updateAccessTime", path, t, ok, {}, ~ok)
      /\ UNCHANGED <<db_handle_, has_table, bitmap_, files, flushed, threads>>

\* a markDirty that can set the flag and never clears it
SetDirtySticky(table, path, d) ==
  IF path \in DOMAIN table
  THEN [table EXCEPT ![path].dirty = @ \/ d] ELSE table

\* a markDirty without the WHERE clause
SetDirtyEveryRow(table, path, d) ==
  IF path \in DOMAIN table
  THEN [q \in DOMAIN table |-> [table[q] EXCEPT !.dirty = d]] ELSE table

\* UPDATE metadata SET dirty=? WHERE path=?
SetDirty(table, path, d) ==
  IF path \in DOMAIN table THEN [table EXCEPT ![path].dirty = d] ELSE table

markDirty(path, d, step_ok) ==
  LET ok == Prepared /\ step_ok
  IN  /\ metadata' = IF ok THEN SetDirty(metadata, path, d) ELSE metadata
      /\ last' = DbCall("markDirty", path, IF d THEN 1 ELSE 0, ok, {}, ~ok)
      /\ UNCHANGED <<db_handle_, has_table, bitmap_, files, flushed, threads>>

\* a remove without the WHERE clause
DeleteEveryRow(table, path) == EmptyMap

\* DELETE FROM metadata WHERE path=?
DeleteRow(table, path) == [q \in DOMAIN table \ {path} |-> table[q]]

remove(path, step_ok) ==
  LET ok == Prepared /\ step_ok
  IN  /\ metadata' = IF ok THEN DeleteRow(metadata, path) ELSE metadata
      /\ last' = DbCall("remove", path, 0, ok, {}, ~ok)
      /\ UNCHANGED <<db_handle_, has_table, bitmap_, files, flushed, threads>>

\* an allEntries that selects the dirty rows only
AllEntriesDirtyOnly ==
  IF Prepared
  THEN {RowToMeta(q, metadata[q]) : q \in {r \in DOMAIN metadata : metadata[r].dirty}}
  ELSE {}

\* std::vector<CacheMetadata> MetadataStore::allEntries(), as a set
AllEntriesResult ==
  IF Prepared THEN {RowToMeta(q, metadata[q]) : q \in DOMAIN metadata} ELSE {}

\* seen: the rows the loop stepped through before sqlite3_step returned
\* something other than SQLITE_ROW (the SELECT has no ORDER BY: any rows);
\* step_ok: that was SQLITE_DONE, after the last row
allEntries(seen, step_ok) ==
  /\ seen \subseteq DOMAIN metadata
  /\ Prepared /\ step_ok => seen = DOMAIN metadata
  /\ ~Prepared => seen = {} /\ ~step_ok
  /\ last' = DbCall("allEntries", "", 0, TRUE,
                    {e \in AllEntriesResult : e.path \in seen},
                    ~(Prepared /\ step_ok))
  /\ UNCHANGED <<db_handle_, has_table, metadata, bitmap_, files,
                 flushed, threads>>

\* cleanup: the rows after DROP TABLE IF EXISTS metadata; drop_ok: the
\* sqlite3_exec of it did not fail
CleanedTable(table, drop_ok) == IF drop_ok THEN EmptyMap ELSE table

\* void MetadataStore::cleanup(); the result of sqlite3_exec is not looked
\* at: the message is freed and the handle closed whatever it is.  The record
\* of the call keeps in `block` whether cleanup found db_handle_ set
cleanup(drop_ok) ==
  /\ db_handle_ = "null" => drop_ok
  /\ IF db_handle_ = "open"
     THEN /\ has_table' = (has_table /\ ~drop_ok)
          /\ metadata' = CleanedTable(metadata, drop_ok)
          /\ db_handle_' = "null"
     ELSE UNCHANGED <<db_handle_, has_table, metadata>>
  /\ last' = DbCall("cleanup", "", IF db_handle_ = "open" THEN 1 ELSE 0,
                    TRUE, {}, ~drop_ok)
  /\ UNCHANGED <<bitmap_, files, flushed, threads>>

\* the process ends (~MetadataStore or a kill) and a new MetadataStore is
\* constructed on the same database and cache root
restart ==
  /\ db_handle_' = "null"
  /\ bitmap_' = EmptyMap
  /\ last' = Call("restart", "", "", 0, 0, TRUE, {})
  /\ UNCHANGED <<has_table, metadata, files, flushed, threads>>

\* ------------------------------------------------------------ the bitmaps
\* a markDirtyBlock that resizes to block_idx + 1 whatever the size
MarkedVecTruncating(vec, block_idx) ==
  [Resize(vec, block_idx + 1) EXCEPT ![block_idx + 1] = TRUE]

\* the vector markDirtyBlock leaves in bitmap_[hash_hex][part_idx]
MarkedVec(vec, block_idx) ==
  LET grown == IF Len(vec) <= block_idx THEN Resize(vec, block_idx + 1) ELSE vec
  IN  [grown EXCEPT ![block_idx + 1] = TRUE]

\* void MetadataStore::markDirtyBlock(hash_hex, part_idx, block_idx)
markDirtyBlock(h, p, b) ==
  /\ bitmap_' = SetVec(bitmap_, h, p, MarkedVec(VecOf(bitmap_, h, p), b))
  /\ last' = Call("markDirtyBlock", "", h, p, b, TRUE, {})
  /\ UNCHANGED <<db_handle_, has_table, metadata, files, flushed, threads>>

\* what the environment lets one persistBitmap call write: -1 when open
\* fails, else the number of bytes write puts in the truncated file
WriteOutcomes(bits) ==
  IF bits = <<>> THEN {0} ELSE (-1)..PackedSize(Len(bits))

\* bool MetadataStore::persistBitmap(hash_hex, part_idx, bits): its result
PersistOk(bits, n) == bits = <<>> \/ n = PackedSize(Len(bits))

\* bool MetadataStore::persistBitmap(hash_hex, part_idx, bits): the file
PersistFile(old, bits, n) ==
  IF bits = <<>> \/ n = -1 THEN old ELSE SubSeq(PackBits(bits), 1, n)

\* a flush that leaves alone the parts after the first one that failed
FlushFilesUntilFailure(fs, bm, h, n) ==
  [o \in DOMAIN fs |->
     IF /\ o[1] = h /\ o[2] \in PartsOf(bm, h)
        /\ \A q \in PartsOf(bm, h) : q < o[2] => PersistOk(bm[h][q], n[q])
     THEN PersistFile(fs[o], bm[h][o[2]], n[o[2]]) ELSE fs[o]]

\* a flush that truncates the files of hash_hex whose part is not in memory
FlushFilesTruncatingAbsent(fs, bm, h, n) ==
  [o \in DOMAIN fs |->
     IF o[1] = h /\ o[2] \in PartsOf(bm, h)
     THEN PersistFile(fs[o], bm[h][o[2]], n[o[2]])
     ELSE IF o[1] = h /\ fs[o] # NoFile THEN <<>> ELSE fs[o]]

\* flushBitmaps: the files after the loop over the parts of hash_hex
FlushFiles(fs, bm, h, n) ==
  [o \in DOMAIN fs |->
     IF o[1] = h /\ o[2] \in PartsOf(bm, h)
     THEN PersistFile(fs[o], bm[h][o[2]], n[o[2]]) ELSE fs[o]]

\* a flush that empties the vectors it persisted
FlushMemoryClearing(bm, h, n) ==
  IF h \in DOMAIN bm /\ \A p \in DOMAIN bm[h] : PersistOk(bm[h][p], n[p])
  THEN (h :> [p \in DOMAIN bm[h] |-> <<>>]) @@ bm ELSE bm

\* flushBitmaps: bitmap_ after the loop; persistBitmap takes each vector by
\* reference to const
FlushMemory(bm, h, n) == bm

\* flushBitmaps: ok &= persistBitmap(...) over the parts of hash_hex
FlushOk(bm, h, n) == \A p \in PartsOf(bm, h) : PersistOk(bm[h][p], n[p])

\* bool MetadataStore::flushBitmaps(hash_hex); n: each part's write outcome
flushBitmaps(h, n) ==
  /\ DOMAIN n = PartsOf(bitmap_, h)
  /\ \A p \in DOMAIN n : n[p] \in WriteOutcomes(bitmap_[h][p])
  /\ files' = FlushFiles(files, bitmap_, h, n)
  /\ last' = CallWith("flushBitmaps", "", h, 0, 0, FlushOk(bitmap_, h, n), {}, n)
  /\ flushed' = [o \in DOMAIN flushed |->
                   IF o[1] = h /\ o[2] \in PartsOf(bitmap_, h)
                   THEN IF FlushOk(bitmap_, h, n)
                        THEN SetBits(bitmap_[h][o[2]]) ELSE {}
                   ELSE flushed[o]]
  /\ bitmap_' = FlushMemory(bitmap_, h, n)
  /\ UNCHANGED <<db_handle_, has_table, metadata, threads>>

\* loadBitmap: the vector built from the file
LoadedVec(file) ==
  ExpandBytes(PRead(file, LoadBufSize(Len(file))))

\* a loadBitmap that takes bitmap_[hash_hex][part_idx] before it looks for
\* the file
LoadMemoryEntryFirst(bm, file, h, p, how) ==
  IF file = NoFile \/ how # "ok" THEN SetVec(bm, h, p, VecOf(bm, h, p))
  ELSE SetVec(bm, h, p, LoadedVec(file))

\* loadBitmap: bitmap_ when it returns; the file missing, open or pread
\* failing, or the vector of the file stored
LoadMemory(bm, file, h, p, how) ==
  IF file = NoFile \/ how # "ok" THEN bm
  ELSE SetVec(bm, h, p, LoadedVec(file))

\* bool MetadataStore::loadBitmap(hash_hex, part_idx); how: the environment
loadBitmap(h, p, how) ==
  /\ how \in {"ok", "open_fails", "pread_fails"}
  /\ files[<<h, p>>] = NoFile => how = "ok"
  /\ bitmap_' = LoadMemory(bitmap_, files[<<h, p>>], h, p, how)
  /\ last' = Call("loadBitmap", "", h, p, 0, how = "ok", {})
  /\ UNCHANGED <<db_handle_, has_table, metadata, files, flushed, threads>>

\* the writeback manager, on full success of the remote flush, clears a
\* part's in-memory bitmap before it calls flushBitmaps: the vector is
\* emptied, or every bit of it is reset
clearBitmap(h, p, how) ==
  /\ HasVec(bitmap_, h, p)
  /\ how \in {"emptied", "reset"}
  /\ bitmap_' = SetVec(bitmap_, h, p,
                       IF how = "emptied" THEN <<>>
                       ELSE [k \in 1..Len(bitmap_[h][p]) |-> FALSE])
  /\ last' = Call("clearBitmap", "", h, p, 0, TRUE, {})
  /\ UNCHANGED <<db_handle_, has_table, metadata, files, flushed, threads>>

\* ----------------------------------------- the methods, statement by statement
\* What a thread does between two accesses to the table, to bitmap_ or to a
\* file is one step; the steps of the threads interleave.
AllIdle == \A t \in Tids : threads[t].pc = "idle"

\* thread t returns from the method it is in
Returned(t) == [Idle EXCEPT !.marked = threads[t].marked]

\* the columns of the SELECT of get, in the order get reads them
Columns == <<"local_path", "size", "timestamp", "last_accessed", "dirty">>

\* a sqlite3_column_* that reads the row of the table as it is now
StmtColumnLive(row, table, path, k) ==
  IF path \in DOMAIN table THEN table[path][Columns[k]] ELSE row[Columns[k]]

\* sqlite3_column_*(stmt, k - 1): column k of the row that sqlite3_step left
\* the statement on
StmtColumn(row, table, path, k) == row[Columns[k]]

GetPcs == {"get_prepare", "get_step", "get_column"}

\* get(path) is called by thread t
get_call(t, path) ==
  /\ threads[t].pc = "idle"
  /\ threads' = [threads EXCEPT ![t] =
                   [@ EXCEPT !.pc = "get_prepare",
                             !.meta = [NoMeta EXCEPT !.path = path],
                             !.cands = {GetResult(path)}]]
  /\ UNCHANGED <<db_handle_, has_table, metadata, bitmap_, files, last,
                 flushed>>

\* get: sqlite3_prepare_v2, and return std::nullopt when it fails
get_prepare(t) ==
  /\ threads[t].pc = "get_prepare"
  /\ IF Prepared
     THEN /\ threads' = [threads EXCEPT ![t].pc = "get_step"]
          /\ UNCHANGED last
     ELSE /\ threads' = [threads EXCEPT ![t] = Returned(t)]
          /\ last' = DbCall("get", threads[t].meta.path, 0, FALSE, {}, TRUE)
  /\ UNCHANGED <<db_handle_, has_table, metadata, bitmap_, files, flushed>>

\* get: sqlite3_step; SQLITE_ROW leaves the statement on the row of path
get_step(t, step_ok) ==
  /\ threads[t].pc = "get_step"
  /\ LET path == threads[t].meta.path
     IN  IF step_ok /\ path \in DOMAIN metadata
         THEN /\ threads' = [threads EXCEPT ![t] =
                               [@ EXCEPT !.pc = "get_column",
                                         !.stmt = {metadata[path]},
                                         !.col = 1]]
              /\ UNCHANGED last
         ELSE /\ threads' = [threads EXCEPT ![t] = Returned(t)]
              /\ last' = DbCall("get", path, 0, FALSE, {}, ~step_ok)
  /\ UNCHANGED <<db_handle_, has_table, metadata, bitmap_, files, flushed>>

\* get: one of meta.local_path = sqlite3_column_text(stmt, 0) ... meta.dirty
\* = sqlite3_column_int(stmt, 4) != 0, and after the last, return meta
get_column(t) ==
  /\ threads[t].pc = "get_column"
  /\ LET f == threads[t]
         k == f.col
         row == CHOOSE r \in f.stmt : TRUE
         meta == [f.meta EXCEPT
                    ![Columns[k]] = StmtColumn(row, metadata, f.meta.path, k)]
     IN  IF k < Len(Columns)
         THEN /\ threads' = [threads EXCEPT ![t] =
                               [@ EXCEPT !.meta = meta, !.col = k + 1]]
              /\ UNCHANGED last
         ELSE /\ threads' = [threads EXCEPT ![t] = Returned(t)]
              /\ last' = DbCall("get", meta.path, 0, TRUE, {meta}, FALSE)
  /\ UNCHANGED <<db_handle_, has_table, metadata, bitmap_, files, flushed>>

\* put(meta) is called by thread t
put_call(t, meta) ==
  /\ threads[t].pc = "idle"
  /\ threads' = [threads EXCEPT ![t] =
                   [@ EXCEPT !.pc = "put_prepare", !.meta = meta]]
  /\ UNCHANGED <<db_handle_, has_table, metadata, bitmap_, files, last,
                 flushed>>

\* put: sqlite3_prepare_v2, return false when it fails, else the six binds
put_prepare(t) ==
  /\ threads[t].pc = "put_prepare"
  /\ IF Prepared
     THEN /\ threads' = [threads EXCEPT ![t].pc = "put_step"]
          /\ UNCHANGED last
     ELSE /\ threads' = [threads EXCEPT ![t] = Returned(t)]
          /\ last' = DbCall("put", threads[t].meta.path, 0, FALSE,
                            {threads[t].meta}, TRUE)
  /\ UNCHANGED <<db_handle_, has_table, metadata, bitmap_, files, flushed>>

\* put: sqlite3_step runs the whole upsert, then return ok; the gets in
\* progress on the path note the new row
put_step(t, step_ok) ==
  /\ threads[t].pc = "put_step"
  /\ LET meta == threads[t].meta
     IN  /\ metadata' = IF step_ok THEN Upsert(metadata, meta) ELSE metadata
         /\ threads' =
              [u \in Tids |->
                 IF u = t THEN Returned(t)
                 ELSE IF /\ step_ok /\ threads[u].pc \in GetPcs
                         /\ threads[u].meta.path = meta.path
                 THEN [threads[u] EXCEPT !.cands = @ \cup {{meta}}]
                 ELSE threads[u]]
         /\ last' = DbCall("put", meta.path, 0, step_ok, {meta}, ~step_ok)
  /\ UNCHANGED <<db_handle_, has_table, bitmap_, files, flushed>>

\* markDirtyBlock(hash_hex, part_idx, block_idx) is called by thread t
mdb_call(t, h, p, b) ==
  /\ threads[t].pc = "idle"
  /\ threads' = [threads EXCEPT ![t] =
                   [@ EXCEPT !.pc = "mdb_entry", !.hash = h, !.part = p,
                             !.block = b]]
  /\ UNCHANGED <<db_handle_, has_table, metadata, bitmap_, files, last,
                 flushed>>

\* markDirtyBlock: auto& vec = bitmap_[hash_hex][part_idx]; operator[] puts
\* an empty vector in the map when it has none
mdb_entry(t) ==
  /\ threads[t].pc = "mdb_entry"
  /\ LET f == threads[t]
     IN  bitmap_' = SetVec(bitmap_, f.hash, f.part, VecOf(bitmap_, f.hash, f.part))
  /\ threads' = [threads EXCEPT ![t].pc = "mdb_size"]
  /\ UNCHANGED <<db_handle_, has_table, metadata, files, last, flushed>>

\* markDirtyBlock: if (vec.size() <= block_idx)
mdb_size(t) ==
  /\ threads[t].pc = "mdb_size"
  /\ LET f == threads[t]
     IN  threads' = [threads EXCEPT ![t].pc =
                       IF Len(VecOf(bitmap_, f.hash, f.part)) <= f.block
                       THEN "mdb_resize" ELSE "mdb_set"]
  /\ UNCHANGED <<db_handle_, has_table, metadata, bitmap_, files, last,
                 flushed>>

\* markDirtyBlock: vec.resize(block_idx + 1, false)
mdb_resize(t) ==
  /\ threads[t].pc = "mdb_resize"
  /\ LET f == threads[t]
     IN  bitmap_' = SetVec(bitmap_, f.hash, f.part,
                          Resize(VecOf(bitmap_, f.hash, f.part), f.block + 1))
  /\ threads' = [threads EXCEPT ![t].pc = "mdb_set"]
  /\ UNCHANGED <<db_handle_, has_table, metadata, files, last, flushed>>

\* the process is killed by a fault: every thread and bitmap_ are gone
Crashed ==
  /\ threads' = [t \in Tids |-> Idle]
  /\ bitmap_' = EmptyMap
  /\ last' = Call("crash", "", "", 0, 0, FALSE, {})

\* markDirtyBlock: vec[block_idx] = true, and return.  When another thread
\* has made the vector shorter since the size was read, the write is outside
\* the vector (undefined): it goes unnoticed or the process crashes
mdb_set(t, how) ==
  /\ threads[t].pc = "mdb_set"
  /\ LET f == threads[t]
         vec == VecOf(bitmap_, f.hash, f.part)
         ret == /\ threads' = [threads EXCEPT ![t] =
                                 [Returned(t) EXCEPT !.marked =
                                    @ \cup {<<f.hash, f.part, f.block>>}]]
                /\ last' = Call("markDirtyBlock", "", f.hash, f.part, f.block,
                                TRUE, {})
     IN  IF f.block < Len(vec)
         THEN /\ how = "ok"
              /\ bitmap_' = SetVec(bitmap_, f.hash, f.part,
                                   [vec EXCEPT ![f.block + 1] = TRUE])
              /\ ret
         ELSE \/ how = "unnoticed" /\ bitmap_' = bitmap_ /\ ret
              \/ how = "crash" /\ Crashed
  /\ UNCHANGED <<db_handle_, has_table, metadata, files, flushed>>

\* flushBitmaps(hash_hex) is called by thread t
fb_call(t, h) ==
  /\ threads[t].pc = "idle"
  /\ threads' = [threads EXCEPT ![t] =
                   [@ EXCEPT !.pc = "fb_find", !.hash = h, !.part = -1,
                             !.ok = TRUE]]
  /\ UNCHANGED <<db_handle_, has_table, metadata, bitmap_, files, last,
                 flushed>>

\* flushBitmaps: bitmap_.find(hash_hex), return true when it has no entry
fb_find(t) ==
  /\ threads[t].pc = "fb_find"
  /\ IF threads[t].hash \in DOMAIN bitmap_
     THEN /\ threads' = [threads EXCEPT ![t].pc = "fb_next"]
          /\ UNCHANGED last
     ELSE /\ threads' = [threads EXCEPT ![t] = Returned(t)]
          /\ last' = Call("flushBitmaps", "", threads[t].hash, 0, 0, TRUE, {})
  /\ UNCHANGED <<db_handle_, has_table, metadata, bitmap_, files, flushed>>

\* flushBitmaps: the loop goes to the next part of the map, or return ok
fb_next(t) ==
  /\ threads[t].pc = "fb_next"
  /\ LET f == threads[t]
         rest == {p \in PartsOf(bitmap_, f.hash) : p > f.part}
     IN  IF rest # {}
         THEN /\ threads' = [threads EXCEPT ![t] =
                               [@ EXCEPT !.pc = "pb_size",
                                         !.part = CHOOSE p \in rest :
                                                    \A q \in rest : p <= q]]
              /\ UNCHANGED last
         ELSE /\ threads' = [threads EXCEPT ![t] = Returned(t)]
              /\ last' = Call("flushBitmaps", "", f.hash, 0, 0, f.ok, {})
  /\ UNCHANGED <<db_handle_, has_table, metadata, bitmap_, files, flushed>>

\* persistBitmap: if (bits.empty()) return true; bytes((bits.size() + 7) / 8)
pb_size(t) ==
  /\ threads[t].pc = "pb_size"
  /\ LET f == threads[t]
         bits == VecOf(bitmap_, f.hash, f.part)
     IN  threads' = [threads EXCEPT ![t] =
                       IF bits = <<>> THEN [@ EXCEPT !.pc = "fb_next"]
                       ELSE [@ EXCEPT !.pc = "pb_pack", !.size = Len(bits)]]
  /\ UNCHANGED <<db_handle_, has_table, metadata, bitmap_, files, last,
                 flushed>>

\* persistBitmap: the loop over i < bits.size() that fills bytes, taken as
\* one read of the vector.  When another thread has made the vector longer
\* than the array allows, the loop writes behind the array (undefined): it
\* goes unnoticed or the process crashes
pb_pack(t, how) ==
  /\ threads[t].pc = "pb_pack"
  /\ LET f == threads[t]
         bits == VecOf(bitmap_, f.hash, f.part)
         packed == PackBits(bits)
         bytes == [j \in 1..PackedSize(f.size) |->
                     IF j <= Len(packed) THEN packed[j] ELSE 0]
         go == /\ threads' = [threads EXCEPT ![t] =
                                [@ EXCEPT !.pc = "pb_write", !.bytes = bytes]]
               /\ UNCHANGED <<bitmap_, last>>
     IN  IF Len(packed) <= PackedSize(f.size)
         THEN how = "ok" /\ go
         ELSE \/ how = "unnoticed" /\ go
              \/ how = "crash" /\ Crashed
  /\ UNCHANGED <<db_handle_, has_table, metadata, files, flushed>>

\* persistBitmap: open, write, close and the result; back in flushBitmaps,
\* ok &= that result.  n: -1 when open fails, else the bytes written
pb_write(t, n) ==
  /\ threads[t].pc = "pb_write"
  /\ LET f == threads[t]
     IN  /\ n \in (-1)..Len(f.bytes)
         /\ files' = [files EXCEPT ![<<f.hash, f.part>>] =
                        IF n = -1 THEN @ ELSE SubSeq(f.bytes, 1, n)]
         /\ threads' = [threads EXCEPT ![t] =
                          [@ EXCEPT !.pc = "fb_next", !.bytes = <<>>,
                                    !.size = 0,
                                    !.ok = (f.ok /\ n = Len(f.bytes))]]
  /\ UNCHANGED <<db_handle_, has_table, metadata, bitmap_, last, flushed>>

\* ------------------------------------------------------------------- Next
Hows == {"ok", "open_fails", "open_nomem", "exec_fails"}
LoadHows == {"ok", "open_fails", "pread_fails"}
Objects(marks) == {<<m[1], m[2]>> : m \in marks}

\* the store's methods on the bitmaps, called with the marks of `marks`
BitmapCalls(marks) ==
  \/ \E m \in marks : markDirtyBlock(m[1], m[2], m[3])
  \/ \E h \in {m[1] : m \in marks} :
       \E n \in [PartsOf(bitmap_, h) -> (-1)..PackedSize(MaxBlock + 1)] :
         flushBitmaps(h, n)
  \/ \E o \in Objects(marks), how \in LoadHows : loadBitmap(o[1], o[2], how)

\* the store's methods on the table, called with the rows of `metas`
TableCalls(metas, times) ==
  \/ \E how \in Hows : init(how)
  \/ \E meta \in metas, step_ok \in BOOLEAN : get(meta.path, step_ok)
  \/ \E meta \in metas, step_ok \in BOOLEAN : put(meta, step_ok)
  \/ \E meta \in metas, t \in times, step_ok \in BOOLEAN :
       updateAccessTime(meta.path, t, step_ok)
  \/ \E meta \in metas, d \in BOOLEAN, step_ok \in BOOLEAN :
       markDirty(meta.path, d, step_ok)
  \/ \E meta \in metas, step_ok \in BOOLEAN : remove(meta.path, step_ok)
  \/ \E seen \in SUBSET {meta.path : meta \in metas}, step_ok \in BOOLEAN :
       allEntries(seen, step_ok)
  \/ \E drop_ok \in BOOLEAN : cleanup(drop_ok)

AllMetas == UNION {MetaFor(path) : path \in Paths}
DirtyMeta == {meta \in MetaFor("/d") : meta.dirty}

\* every method, on two paths and one block
Next == TableCalls(AllMetas, Times) \/ restart \/ BitmapCalls(OneMark)
Spec == Init /\ [][Next]_vars

\* every method, on one path and the blocks of two objects
NextObject ==
  TableCalls(DirtyMeta, {MaxTime}) \/ restart \/ BitmapCalls(ObjectMarks)
SpecObject == Init /\ [][NextObject]_vars

\* the bitmap methods on the parts of one object
NextParts == restart \/ BitmapCalls(PartMarks)
SpecParts == Init /\ [][NextParts]_vars

\* the bitmap methods and the writeback manager's clearing of a bitmap
NextWriteback ==
  \/ restart
  \/ BitmapCalls(ObjectMarks)
  \/ \E o \in Objects(ObjectMarks), how \in {"emptied", "reset"} :
       clearBitmap(o[1], o[2], how)
SpecWriteback == Init /\ [][NextWriteback]_vars

\* put and get of one path, called by two threads at once, on a store that
\* is initialised while no call is in progress
NextTableThreads ==
  \/ AllIdle /\ \E how \in Hows : init(how)
  \/ \E t \in Tids, meta \in MetaFor("/d") : get_call(t, meta.path)
  \/ \E t \in Tids : get_prepare(t)
  \/ \E t \in Tids, step_ok \in BOOLEAN : get_step(t, step_ok)
  \/ \E t \in Tids : get_column(t)
  \/ \E t \in Tids, meta \in MetaFor("/d") : put_call(t, meta)
  \/ \E t \in Tids : put_prepare(t)
  \/ \E t \in Tids, step_ok \in BOOLEAN : put_step(t, step_ok)
SpecTableThreads == Init /\ [][NextTableThreads]_vars

\* markDirtyBlock and flushBitmaps on the blocks of one part, called by two
\* threads at once
ThreadMarks == {<<"h1", 0, 0>>, <<"h1", 0, MaxBlock>>}
FaultHows == {"ok", "unnoticed", "crash"}

NextBitmapThreads ==
  \/ \E t \in Tids, m \in ThreadMarks : mdb_call(t, m[1], m[2], m[3])
  \/ \E t \in Tids : mdb_entry(t)
  \/ \E t \in Tids : mdb_size(t)
  \/ \E t \in Tids : mdb_resize(t)
  \/ \E t \in Tids, how \in FaultHows : mdb_set(t, how)
  \/ \E t \in Tids, m \in ThreadMarks : fb_call(t, m[1])
  \/ \E t \in Tids : fb_find(t)
  \/ \E t \in Tids : fb_next(t)
  \/ \E t \in Tids : pb_size(t)
  \/ \E t \in Tids, how \in FaultHows : pb_pack(t, how)
  \/ \E t \in Tids, n \in (-1)..PackedSize(MaxBlock + 1) : pb_write(t, n)
SpecBitmapThreads == Init /\ [][NextBitmapThreads]_vars

\* ================================================================ claims

\* C1: put is an upsert keyed by path: after a successful put(row),
\* get(row.path) returns a row equal to `row` in every field, whether or not
\* the path was stored before; the rows of the other paths are what they
\* were, and the table holds one row per path (it is keyed by path).
C1_PutIsUpsert ==
  [][(last'.op = "put" /\ last'.ret) =>
       \A meta \in last'.out :
         /\ GetResult(meta.path)' = {meta}
         /\ \A q \in Paths \ {meta.path} :
              /\ (q \in DOMAIN metadata') = (q \in DOMAIN metadata)
              /\ q \in DOMAIN metadata => metadata'[q] = metadata[q]
         /\ \A e1, e2 \in AllEntriesResult' : e1.path = e2.path => e1 = e2]_vars

\* C1 witness: a successful put of the directory row over "/d" while the
\* other path holds a dirty row that an earlier call stored.
C1_Witness ==
  /\ last.op = "put" /\ last.ret /\ last.path = "/d"
  /\ \E meta \in last.out : ~meta.dirty
  /\ "/d/f" \in DOMAIN metadata /\ metadata["/d/f"].dirty
  /\ metadata["/d/f"].last_accessed = 1

\* the call that made the current state was a successful loadBitmap of object o
LoadedNow(o) ==
  last.op = "loadBitmap" /\ last.ret /\ last.hash = o[1] /\ last.part = o[2]

\* C2: bitmap round trip: a successful flushBitmaps(hash) followed by
\* loadBitmap(hash, part) leaves in memory the bits that were in memory
\* before the flush, for every hash and part.  Stated on the set bits, so
\* that the padding of the loaded vector to whole bytes is not counted.
C2_RoundTrip ==
  [][\A o \in Hashes \X Parts :
       (/\ last.op = "flushBitmaps" /\ last.ret /\ last.hash = o[1]
        /\ HasVec(bitmap_, o[1], o[2])
        /\ LoadedNow(o)')
       => SetBits(VecOf(bitmap_', o[1], o[2])) = SetBits(VecOf(bitmap_, o[1], o[2]))]_vars

\* C3 as claimed: in every state a stored row is dirty if and only if some
\* in-memory bitmap of its object has a set bit.
C3_DirtyIffBitSet ==
  \A path \in DOMAIN metadata :
    metadata[path].dirty <=>
      \E p \in Parts : SetBits(VecOf(bitmap_, HashOf(path), p)) # {}

\* C3 as amended: the store keeps the dirty flag and the bitmaps apart.  The
\* flag of a stored row is what the last successful put or markDirty of its
\* path gave; markDirtyBlock, flushBitmaps and loadBitmap change no row; put,
\* markDirty, updateAccessTime and remove change no bitmap and no bitmap file.
C3_DirtyFlagApartFromBitmaps ==
  [][/\ last'.op \in {"markDirtyBlock", "flushBitmaps", "loadBitmap"}
        => metadata' = metadata /\ has_table' = has_table
     /\ last'.op \in {"put", "markDirty", "updateAccessTime", "remove"}
        => bitmap_' = bitmap_ /\ files' = files
     /\ (last'.op = "put" /\ last'.ret)
        => \A meta \in last'.out : metadata'[meta.path].dirty = meta.dirty
     /\ (last'.op = "markDirty" /\ last'.ret /\ last'.path \in DOMAIN metadata)
        => metadata'[last'.path].dirty = (last'.block = 1)]_vars

\* C3 witness: markDirty has just cleared the flag of a stored row while a
\* bitmap of its object holds a set bit.
C3_Witness ==
  /\ last.op = "markDirty" /\ last.ret /\ last.block = 0
  /\ last.path \in DOMAIN metadata /\ ~metadata[last.path].dirty
  /\ \E p \in Parts : SetBits(VecOf(bitmap_, HashOf(last.path), p)) # {}

\* C4: crash safety of dirty state: a restart keeps the table and the bitmap
\* files, a successful init keeps the rows (so get still returns the dirty
\* row), and the first loadBitmap of a part in the new process restores every
\* bit that a successful flushBitmaps had persisted for it.
C4_CrashSafety ==
  [][/\ last'.op = "restart"
        => metadata' = metadata /\ has_table' = has_table /\ files' = files
     /\ (last'.op = "init" /\ last'.ret) => metadata' = metadata
     /\ \A o \in Hashes \X Parts :
          (~HasVec(bitmap_, o[1], o[2]) /\ LoadedNow(o)')
          => flushed[o] \subseteq SetBits(VecOf(bitmap_', o[1], o[2]))]_vars

\* C5: loadBitmap on a file of B >= 1 bytes reads all B bytes: the vector in
\* memory has B*8 bits, bit i being bit (i mod 8) of byte (i div 8).
C5_LoadReadsWholeFile ==
  \A o \in Hashes \X Parts :
    (LoadedNow(o) /\ files[o] # NoFile /\ Len(files[o]) >= 1)
    => VecOf(bitmap_, o[1], o[2]) = ExpandBytes(files[o])

LoadableBits(f) == IF f = NoFile THEN {} ELSE SetBits(LoadedVec(f))

\* C8: once a part's in-memory bitmap is cleared and flushBitmaps has
\* returned true, the persisted bitmap of that part holds no set bit: a later
\* loadBitmap of it yields no dirty bit.
C8_ClearedBitmapPersisted ==
  \A o \in Hashes \X Parts :
    (/\ last.op = "flushBitmaps" /\ last.ret /\ last.hash = o[1]
     /\ HasVec(bitmap_, o[1], o[2])
     /\ SetBits(bitmap_[o[1]][o[2]]) = {})
    => LoadableBits(files[o]) = {}

\* C9: loadBitmap(hash, part) with no bitmap file for (hash, part) returns
\* success and leaves the in-memory bitmap map as it was.
C9_LoadMissingFile ==
  [][(last'.op = "loadBitmap" /\ files[<<last'.hash, last'.part>>] = NoFile)
     => last'.ret /\ bitmap_' = bitmap_]_vars

\* C9 witness: loadBitmap returned success for a part without a file and
\* without a vector in memory, while the object's other state is in memory.
C9_Witness ==
  /\ last.op = "loadBitmap" /\ last.ret
  /\ files[<<last.hash, last.part>>] = NoFile
  /\ ~HasVec(bitmap_, last.hash, last.part)
  /\ bitmap_ # EmptyMap

\* C10: markDirtyBlock(hash, part, block) accumulates in memory: bit `block`
\* is set, the length is max(previous length, block + 1), the added bits are
\* unset, every bit set before is still set, the vectors of the other
\* (hash, part) pairs are unchanged, and no row and no bitmap file changes.
C10_MarkDirtyBlockAccumulates ==
  [][last'.op = "markDirtyBlock" =>
       LET h == last'.hash
           p == last'.part
           b == last'.block
           old == VecOf(bitmap_, h, p)
           new == VecOf(bitmap_', h, p)
       IN  /\ HasVec(bitmap_', h, p)
           /\ Len(new) = (IF Len(old) > b + 1 THEN Len(old) ELSE b + 1)
           /\ new[b + 1]
           /\ \A i \in 1..Len(old) : old[i] => new[i]
           /\ \A i \in (Len(old) + 1)..Len(new) : i # b + 1 => ~new[i]
           /\ \A o \in (Hashes \X Parts) \ {<<h, p>>} :
                /\ HasVec(bitmap_', o[1], o[2]) = HasVec(bitmap_, o[1], o[2])
                /\ VecOf(bitmap_', o[1], o[2]) = VecOf(bitmap_, o[1], o[2])
           /\ metadata' = metadata /\ has_table' = has_table
           /\ files' = files]_vars

\* C10 witness: block 0 was marked in a vector that already reached beyond
\* it, a row is stored, and another object has a vector and a file.
C10_Witness ==
  /\ last.op = "markDirtyBlock" /\ last.block = 0
  /\ SetBits(VecOf(bitmap_, last.hash, last.part)) = {0, MaxBlock}
  /\ DOMAIN metadata # {}
  /\ \E o \in Hashes \X Parts :
       o[1] # last.hash /\ HasVec(bitmap_, o[1], o[2]) /\ files[o] # NoFile

\* the columns of row `row` are the fields of the CacheMetadata m of `path`
SameFields(m, path, row) ==
  /\ m.path = path /\ m.local_path = row.local_path /\ m.size = row.size
  /\ m.timestamp = row.timestamp /\ m.last_accessed = row.last_accessed
  /\ m.dirty = row.dirty

\* the rows of the paths other than `path` are what they were
OtherRowsKept(path) ==
  \A q \in Paths \ {path} :
    /\ (q \in DOMAIN metadata') = (q \in DOMAIN metadata)
    /\ q \in DOMAIN metadata => metadata'[q] = metadata[q]

\* C11: remove(path) removes the metadata row only: after a remove that
\* returned true get(path) returns none; the rows of the other paths, the
\* in-memory bitmaps and the bitmap files are what they were; remove of an
\* absent path returns true unless the statement failed, and changes nothing;
\* a remove that returned false changes nothing.
C11_RemoveRowOnly ==
  [][last'.op = "remove" =>
       /\ last'.ret = ~last'.db_err
       /\ last'.ret =>
            \A path \in Paths : path = last'.path => GetResult(path)' = {}
       /\ OtherRowsKept(last'.path)
       /\ bitmap_' = bitmap_ /\ files' = files
       /\ db_handle_' = db_handle_ /\ has_table' = has_table
       /\ (last'.path \notin DOMAIN metadata \/ ~last'.ret) => metadata' = metadata]_vars

\* C11 witness: remove returned true, its path has no row, the other path has
\* its row, and the object of the removed path has a bitmap in memory and a
\* bitmap file.
C11_Witness ==
  /\ last.op = "remove" /\ last.ret /\ last.path = "/d"
  /\ DOMAIN metadata = {"/d/f"}
  /\ HasVec(bitmap_, HashOf("/d"), 0) /\ files[<<HashOf("/d"), 0>>] # NoFile

\* C12: updateAccessTime(path, t) on an absent path changes nothing, creates
\* no row and returns true unless the statement failed; on a stored path,
\* when it returns true, last_accessed of the row is t and local_path, size,
\* timestamp and dirty are what they were; the other rows, the bitmaps and
\* the bitmap files are unchanged.
C12_UpdateAccessTimeFrame ==
  [][last'.op = "updateAccessTime" =>
       LET path == last'.path
       IN  /\ last'.ret = ~last'.db_err
           /\ DOMAIN metadata' = DOMAIN metadata
           /\ OtherRowsKept(path)
           /\ (path \notin DOMAIN metadata \/ ~last'.ret) => metadata' = metadata
           /\ (path \in DOMAIN metadata /\ last'.ret) =>
                /\ metadata'[path].last_accessed = last'.block
                /\ metadata'[path].local_path = metadata[path].local_path
                /\ metadata'[path].size = metadata[path].size
                /\ metadata'[path].timestamp = metadata[path].timestamp
                /\ metadata'[path].dirty = metadata[path].dirty
           /\ bitmap_' = bitmap_ /\ files' = files]_vars

\* C12 witness: updateAccessTime returned true on a stored path whose row now
\* has a last_accessed no put gave it, while the other path has no row.
C12_Witness ==
  /\ last.op = "updateAccessTime" /\ last.ret
  /\ DOMAIN metadata = {last.path}
  /\ metadata[last.path].last_accessed = last.block
  /\ metadata[last.path].timestamp # last.block

\* C13: markDirty(path, d) on an absent path changes nothing, creates no row
\* and returns true unless the statement failed; on a stored path, when it
\* returns true, the dirty flag of the row is d and its other fields are what
\* they were; the other rows, the bitmaps and the bitmap files are unchanged.
C13_MarkDirtyFrame ==
  [][last'.op = "markDirty" =>
       LET path == last'.path
       IN  /\ last'.ret = ~last'.db_err
           /\ DOMAIN metadata' = DOMAIN metadata
           /\ OtherRowsKept(path)
           /\ (path \notin DOMAIN metadata \/ ~last'.ret) => metadata' = metadata
           /\ (path \in DOMAIN metadata /\ last'.ret) =>
                metadata'[path] = [metadata[path] EXCEPT !.dirty = (last'.block = 1)]
           /\ bitmap_' = bitmap_ /\ files' = files]_vars

\* C13 witness: markDirty returned true and set the flag of a row that was
\* put clean, the other path holds a clean row, and a bitmap is in memory.
C13_Witness ==
  /\ last.op = "markDirty" /\ last.ret /\ last.block = 1
  /\ DOMAIN metadata = Paths
  /\ metadata[last.path].dirty /\ metadata[last.path].local_path = ""
  /\ \A q \in Paths \ {last.path} : ~metadata[q].dirty
  /\ bitmap_ # EmptyMap

\* C14: get(path) is read-only: it changes no row (last_accessed included),
\* no bitmap, no bitmap file and not the handle; when its statement ran it
\* returns the stored row, field by field, if the path has one and none
\* otherwise.
C14_GetReadOnly ==
  [][last'.op = "get" =>
       LET path == last'.path
       IN  /\ metadata' = metadata /\ has_table' = has_table
           /\ db_handle_' = db_handle_
           /\ bitmap_' = bitmap_ /\ files' = files
           /\ last'.ret = (last'.out # {})
           /\ (~last'.db_err /\ path \in DOMAIN metadata) =>
                /\ Cardinality(last'.out) = 1
                /\ \A m \in last'.out : SameFields(m, path, metadata[path])
           /\ (~last'.db_err /\ path \notin DOMAIN metadata) => last'.out = {}]_vars

\* C14 witness: get returned a row whose last_accessed differs from its
\* timestamp, and the row stored has that last_accessed still.
C14_Witness ==
  /\ last.op = "get" /\ last.ret
  /\ \E m \in last.out :
       /\ m.last_accessed # m.timestamp
       /\ metadata[last.path].last_accessed = m.last_accessed
  /\ bitmap_ # EmptyMap

\* C15: allEntries returns exactly the current rows: when its statement ran
\* to the end, the result holds one entry per stored path, equal to what
\* get(path) returns, and no entry for a path without a row.
C15_AllEntriesExact ==
  [][(last'.op = "allEntries" /\ ~last'.db_err) =>
       /\ \A path \in Paths : {e \in last'.out : e.path = path} = GetResult(path)
       /\ \A e \in last'.out : e.path \in DOMAIN metadata
       /\ Cardinality(last'.out) = Cardinality(DOMAIN metadata)]_vars

\* C15 witness: allEntries returned one entry, of a row that updateAccessTime
\* and markDirty have changed since its put, while the other path, which was
\* stored, has no row.
C15_Witness ==
  /\ last.op = "allEntries" /\ ~last.db_err
  /\ Cardinality(last.out) = 1 /\ Cardinality(DOMAIN metadata) = 1
  /\ \E e \in last.out :
       /\ e.last_accessed # e.timestamp
       /\ e.dirty = (e.local_path = "")


\* the values a CacheMetadata read from the table can have
StoredMetas ==
  {[m EXCEPT !.last_accessed = t, !.dirty = d] :
     m \in AllMetas, t \in Times, d \in BOOLEAN}

\* the result in call record c is one that a call in which no statement
\* failed can give: true from the methods that return bool, a row or none
\* from get, a list with at most one entry per path from allEntries
CouldBeSuccess(c) ==
  IF c.op = "get"
  THEN c.out \subseteq StoredMetas /\ Cardinality(c.out) <= 1
  ELSE IF c.op = "allEntries"
  THEN /\ c.out \subseteq StoredMetas
       /\ \A e1, e2 \in c.out : e1.path = e2.path => e1 = e2
  ELSE c.ret

\* C16: every database error is bubbled to the caller: when a statement of
\* get, put, updateAccessTime, markDirty, remove or allEntries could not be
\* prepared or executed, the call returns a result that no successful call
\* returns.
C16_ErrorsDistinguishable ==
  (/\ last.db_err
   /\ last.op \in {"get", "put", "updateAccessTime", "markDirty", "remove",
                   "allEntries"})
  => ~CouldBeSuccess(last)

\* C19: init keeps the data: a successful init leaves the statements of every
\* method preparable and every row as it was, and the rows stored when the
\* store object was destroyed are returned unchanged by get once a new store
\* is initialised on the same database.
C19_InitKeepsRows ==
  [][/\ (last'.op = "init" /\ last'.ret) =>
          /\ Prepared'
          /\ metadata' = metadata
          /\ \A path \in Paths :
               /\ path \in DOMAIN metadata =>
                    /\ Cardinality(GetResult(path)') = 1
                    /\ \A m \in GetResult(path)' : SameFields(m, path, metadata[path])
               /\ path \notin DOMAIN metadata => GetResult(path)' = {}
     /\ last'.op = "restart" =>
          metadata' = metadata /\ has_table' = has_table]_vars

\* C19 witness: a successful init by a store that held no handle, on a
\* database in which both paths have a row, one of them changed since its
\* put, after a store that had flushed a bitmap was destroyed.
C19_Witness ==
  /\ last.op = "init" /\ last.ret /\ last.block = 0
  /\ bitmap_ = EmptyMap /\ files[<<"h1", 0>>] # NoFile
  /\ DOMAIN metadata = Paths
  /\ \E path \in Paths :
       metadata[path].last_accessed # metadata[path].timestamp

\* C20: the database session is closed exactly once: no call leaves open a
\* handle that the store no longer holds, and after cleanup and after the
\* destruction of the store no handle is held.
C20_HandleClosedOnce ==
  /\ last.op = "init" => last.out = {}
  /\ last.op \in {"cleanup", "restart"} => db_handle_ = "null"

\* C18: put is atomic for a concurrent get of the same path: in every
\* interleaving of the steps of put and get, a get that returns gives none,
\* the complete row the path had when the get was called, or the complete
\* row of a put that succeeded since; never a row with fields of two rows.
\* (A get whose statement failed gives none whatever the rows: C16.)
C18_PutAtomicForGet ==
  [][\A t \in Tids :
       (threads[t].pc \in GetPcs /\ threads'[t].pc = "idle") =>
         /\ last'.op = "get"
         /\ ~last'.db_err => last'.out \in threads[t].cands
         /\ \A m \in last'.out : m \in MetaFor(threads[t].meta.path)]_vars

\* C18 witness: get has returned a complete row while the other thread is
\* inside a put of another row for the same path, its statement prepared and
\* not yet stepped.
C18_Witness ==
  /\ last.op = "get" /\ last.ret
  /\ \E t \in Tids :
       /\ threads[t].pc = "put_step"
       /\ threads[t].meta.path = last.path
       /\ threads[t].meta \notin last.out

\* C17: the bitmap map is protected by a reader/writer lock, so that under
\* every interleaving of the threads no marked bit is lost: the bit of every
\* markDirtyBlock that has returned is set in the in-memory bitmap.
C17_NoMarkedBitLost ==
  \A t \in Tids : \A m \in threads[t].marked :
    m[3] \in SetBits(VecOf(bitmap_, m[1], m[2]))

\* C26: cleanup drops all metadata and closes the session: after cleanup get
\* returns none for every path and allEntries is empty; put, updateAccessTime,
\* markDirty and remove report failure while no init has been called since;
\* a successful init that follows finds the table empty; a cleanup that
\* follows a cleanup changes nothing.
C26_CleanupDropsAll ==
  [][/\ last'.op = "cleanup" =>
          /\ db_handle_' = "null"
          /\ \A path \in Paths : GetResult(path)' = {}
          /\ AllEntriesResult' = {}
     /\ (/\ last.op \in {"cleanup", "put", "updateAccessTime", "markDirty", "remove"}
         /\ db_handle_ = "null"
         /\ last'.op \in {"put", "updateAccessTime", "markDirty", "remove"})
        => ~last'.ret /\ metadata' = metadata
     /\ (last.op = "cleanup" /\ last'.op = "init" /\ last'.ret)
        => metadata' = EmptyMap
     /\ (last.op = "cleanup" /\ last'.op = "cleanup")
        => /\ metadata' = metadata /\ has_table' = has_table
           /\ db_handle_' = db_handle_ /\ bitmap_' = bitmap_
           /\ files' = files]_vars

\* C21: bitmaps are persisted as packed little-endian byte arrays: when
\* persistBitmap has written the whole array of a vector of n >= 1 bits, the
\* file holds exactly ceil(n / 8) bytes, whatever it held before; bit i of
\* the vector is bit (i mod 8) of byte (i div 8), and the bits beyond n are
\* zero.
C21_PackedLittleEndian ==
  [][last'.op = "flushBitmaps" =>
       \A p \in DOMAIN last'.writes :
         LET bits == bitmap_[last'.hash][p]
             n == Len(bits)
             file == files'[<<last'.hash, p>>]
         IN  (/\ n >= 1
              /\ 8 * (last'.writes[p] - 1) < n /\ n <= 8 * last'.writes[p])
             => /\ Len(file) = last'.writes[p]
                /\ \A i \in 0..(8 * Len(file) - 1) :
                     ((file[(i \div 8) + 1] \div Pow2(i % 8)) % 2 = 1)
                       = (i < n /\ bits[i + 1])]_vars

\* C21 witness: flushBitmaps returned true for a vector of MaxBlock + 1 bits
\* with its first and its last bit set; the file has a second byte, partly
\* padding.
C21_Witness ==
  /\ last.op = "flushBitmaps" /\ last.ret
  /\ HasVec(bitmap_, last.hash, 0)
  /\ SetBits(bitmap_[last.hash][0]) = {0, MaxBlock}
  /\ Len(files[<<last.hash, 0>>]) = 2
  /\ files[<<last.hash, 0>>][1] = 1 /\ files[<<last.hash, 0>>][2] > 0

\* a directory entry: size zero and no local path
IsDirectory(row) == row.size = 0 /\ row.local_path = ""

\* every ancestor of every path stored in `table` is stored as a directory
AncestorsStored(table) ==
  \A path \in DOMAIN table : \A a \in Ancestors(path) :
    a \in DOMAIN table /\ IsDirectory(table[a])

\* some path below `path` is stored in `table`
HasDescendant(table, path) == \E q \in DOMAIN table : path \in Ancestors(q)

\* C22 as claimed: in every reachable state each ancestor directory of every
\* stored path is itself stored as a directory entry.
C22_AncestorsAlwaysStored == AncestorsStored(metadata)

\* C22 as amended: put and remove act on the row of their path only, so the
\* store keeps the ancestor invariant exactly when its caller does.  put adds
\* no ancestor row and remove removes no descendant row; a put keeps the
\* invariant when the ancestors of its path are stored as directories and it
\* does not make a file of a path with stored descendants; a remove keeps it
\* when its path has no stored descendant.
C22_AncestorsKeptByCaller ==
  [][/\ (last'.op = "put" /\ last'.ret) =>
          /\ DOMAIN metadata' = DOMAIN metadata \cup {last'.path}
          /\ \A meta \in last'.out :
               (/\ AncestorsStored(metadata)
                /\ \A a \in Ancestors(meta.path) :
                     a \in DOMAIN metadata /\ IsDirectory(metadata[a])
                /\ HasDescendant(metadata, meta.path) =>
                     (meta.size = 0 /\ meta.local_path = ""))
               => AncestorsStored(metadata')
     /\ (last'.op = "remove" /\ last'.ret) =>
          /\ DOMAIN metadata' = DOMAIN metadata \ {last'.path}
          /\ (AncestorsStored(metadata) /\ ~HasDescendant(metadata, last'.path))
             => AncestorsStored(metadata')]_vars

\* C22 witness: put returned true for "/d/f" and stored its row while its
\* parent "/d" has no row.
C22_Witness ==
  /\ last.op = "put" /\ last.ret /\ last.path = "/d/f"
  /\ DOMAIN metadata = {"/d/f"}

\* C23: dirty bits are never lost in memory: the bit a markDirtyBlock has
\* just set is still set after the next call of any method of the store, a
\* loadBitmap of the same hash and part included.
C23_MarkedBitStaysSet ==
  [][(last.op = "markDirtyBlock" /\ last'.op # "restart") =>
       last.block \in SetBits(VecOf(bitmap_', last.hash, last.part))]_vars

\* C24: loading and persisting again is idempotent on disk: after a
\* successful loadBitmap(hash, part) of an existing file, a successful
\* flushBitmaps(hash) as the next call leaves the file with the set bits it
\* had.
C24_LoadFlushKeepsFile ==
  [][\A o \in Hashes \X Parts :
       (/\ LoadedNow(o) /\ files[o] # NoFile
        /\ last'.op = "flushBitmaps" /\ last'.hash = o[1] /\ last'.ret)
       => SetBits(ExpandBytes(files'[o])) = SetBits(ExpandBytes(files[o]))]_vars

\* C25: flushBitmaps(hash) touches only the bitmap files of that object: the
\* files of every other hash, the table and the session are unchanged, and
\* when the object has no bitmap in memory it returns true and leaves every
\* file as it was.
C25_FlushTouchesOwnFiles ==
  [][last'.op = "flushBitmaps" =>
       LET h == last'.hash
       IN  /\ \A o \in DOMAIN files : o[1] # h => files'[o] = files[o]
           /\ metadata' = metadata /\ has_table' = has_table
           /\ db_handle_' = db_handle_
           /\ h \notin DOMAIN bitmap_ => (last'.ret /\ files' = files)]_vars

\* C25 witness: flushBitmaps returned true for an object with no bitmap in
\* memory whose file holds a set bit, while another object has a bitmap in
\* memory and a row is stored.
C25_Witness ==
  /\ last.op = "flushBitmaps" /\ last.ret
  /\ last.hash \notin DOMAIN bitmap_ /\ bitmap_ # EmptyMap
  /\ files[<<last.hash, 0>>] # NoFile
  /\ SetBits(ExpandBytes(files[<<last.hash, 0>>])) # {}
  /\ metadata # EmptyMap

====
